---- MODULE Spec2Model ----
(***************************************************************************)
(* The boxcat IRC test client (Client.start / reader / writer / stop) as a *)
(* state machine.  The caller (a test driver), the server and the network  *)
(* are the environment; the two loops and stop are the program.            *)
(*                                                                         *)
(* The write path (Client.writeMessage) is split at the calls it makes on  *)
(* the shared bufio.Writer: WriteString appends to the buffer, Flush hands *)
(* the buffer to the connection and afterwards resets it.  The reader loop *)
(* (PONG) and the writer loop (caller messages) use that buffer without    *)
(* synchronisation, so the steps of the two tasks interleave freely.       *)
(*                                                                         *)
(* The catbox harness (harnessCatbox, its three background tasks and       *)
(* Catbox.stop) is a second state machine over its own variables, with the *)
(* child process as its environment; it has its own specification,         *)
(* HarnessSpec, under which the client's variables keep their initial      *)
(* values, as the harness's do under Spec.                                 *)
(*                                                                         *)
(* RelaySpec is TestPRIVMSG: the client above as the sender, the reader    *)
(* loop and the inbound queue of a second client, and a server that        *)
(* welcomes both and relays the sender's PRIVMSGs to the second client.    *)
(* The second client's variables keep their initial values under Spec and  *)
(* HarnessSpec.                                                            *)
(*                                                                         *)
(* WaitSpec is the test helper waitForMessage receiving from the client's  *)
(* inbound queue, with the reader loop as the only sender; its variables   *)
(* keep their initial values under the other specifications.               *)
(***************************************************************************)
EXTENDS Integers, Sequences, FiniteSets, TLC

(* ---- bounds ---- *)

\* Capacities of recvChan, sendChan and errChan: 512 each in the source, scaled
\* down.  The error queue keeps room for one entry of each loop, so that, as
\* with 512, only repeated posts of one loop can fill it.
RecvCap == 1
SendCap == 1
ErrCap == 2
\* Traffic over the life of a runtime: lines the client reads off the
\* connection plus messages the caller places on sendChan.
MaxTraffic == 3
\* Calls of harnessCatbox in one process (one per test).
MaxCalls == 2

(* ---- messages ---- *)

Nick == "client1"

\* the nick of the second client of TestPRIVMSG
PeerNick == "client2"

\* the line by which the server welcomes the client registered as n
Welcome(n) == <<"001", n>>

\* a message as the line the server makes of it
LineOf(m) == <<m.Command>> \o m.Params

Tasks == {"reader", "writer"}

\* the child's output streams, and the background tasks of a harness handle
Streams == {"stderr", "stdout"}

HTasks == Streams \cup {"wait"}

\* the readiness wait: 3 s in steps of 100 ms
MaxWaited == 30

NoMsg == [Command |-> "none", Params |-> <<>>]

NickMsg == [Command |-> "NICK", Params |-> <<Nick>>]

UserMsg == [Command |-> "USER", Params |-> <<Nick, "0", "*", Nick>>]

PongMsg(m) == [Command |-> "PONG", Params |-> <<m.Params[1]>>]

\* The i-th message the caller submits; an empty command cannot be encoded.
Tag(i) == IF i = 1 THEN "m1" ELSE IF i = 2 THEN "m2" ELSE IF i = 3 THEN "m3" ELSE "m4"

CallerMsg(i, good) ==
    [Command |-> IF good THEN "PRIVMSG" ELSE "", Params |-> <<PeerNick, Tag(i)>>]

\* irc.Message.Encode: an error other than ErrTruncated
EncodeFails(m) == m.Command = ""

\* The text of a read-deadline expiry, as the reader looks for it
Timeout == "i/o timeout"

\* Lines the server can send, as token sequences.  The empty line and the line
\* "i/o timeout" do not parse.  A line is chosen when the reader reads it: what
\* the server has sent and the client has not read is seen by nobody.
ServerLines ==
    { <<"PING", "a">>, <<"PING">>, <<"001", "client1">>, <<>>, <<Timeout>> }

\* What can remain of a line when a read deadline expires after its first
\* token has arrived
Rests == { Tail(l) : l \in { x \in ServerLines : Len(x) >= 2 } }

\* what the parser takes for a command
IsCommand(c) == c \in {"PING", "PONG", "NICK", "USER", "PRIVMSG", "001"}

\* irc.ParseMessage: an error other than ErrTruncated
ParseFails(line) == Len(line) = 0 \/ ~IsCommand(Head(line))

ParseMessage(line) == [Command |-> Head(line), Params |-> Tail(line)]

\* Error texts of readMessage, as token sequences: the deadline expiry and the
\* end of the stream as the net package words them, and the parse failure,
\* which is formatted with the text of the line.
DeadlineErr == <<"read tcp", Timeout>>

EOFErr == <<"EOF">>

ParseErr(line) == <<"unable to parse message:">> \o line \o <<"malformed">>

\* strings.Contains(err.Error(), s)
Contains(text, s) == \E i \in DOMAIN text : text[i] = s

(* ---- state ---- *)

VARIABLES
    startPc,      \* position of Client.start
    startErr,     \* what start returned: "none", "dial", "nick", "user"
    conn,         \* c.conn: "none", "open", "closed"
    connBroken,   \* the peer or the network has failed the connection
    nLines,       \* lines the client has read off the connection
    chansMade,    \* recvChan, sendChan, errChan, doneChan exist
    recvChan, recvClosed,
    sendChan, sendClosed,
    errChan, errClosed,
    doneClosed,   \* close(c.doneChan) has happened
    wgCount,      \* c.wg counter
    pc,           \* pc[t]: position of the reader and the writer goroutine
    cur,          \* cur[t]: the message m held by task t, NoMsg when out of scope
    fn,           \* fn[t]: number of buffered messages Flush handed to conn.Write
    wbuf,         \* contents of the shared bufio.Writer
    werr,         \* sticky error of the bufio.Writer
    stopPc,       \* position of Client.stop
    crashed,      \* "no", or the run-time panic the process died of
    wire,         \* history: messages the connection has carried to the server
    readLog,      \* history: messages readMessage has returned
    fwdLog,       \* history: messages the reader has sent on recvChan
    errCount,     \* history: errCount[t] entries task t has sent on errChan
    sentLog,      \* history: messages the caller has sent on sendChan
    failedLog,    \* history: caller messages whose writeMessage failed
    rExit,        \* history: how the reader ended
    errCloses,    \* history: number of close(errChan)
    readErr,      \* history: what the reader's last readMessage failed of:
                  \* "nil", "timeout", "parse", "read"
    polledClosed, \* history: the writer has received from the closed sendChan
    srvLines,     \* history: the lines the server has sent, whole or in part
    pending       \* the rest, still to be read, of a line whose beginning a
                  \* read that ran into the deadline has returned

\* The catbox harness (harnessCatbox, its background tasks, Catbox.stop) and
\* the child process it launches.
VARIABLES
    hPc,          \* position of harnessCatbox (startCatbox, runCatbox inlined)
    builtCatbox,  \* package-level flag: the server binary has been built
    configDir,    \* the temporary directory: "none", "exists", "removed"
    listener,     \* the listener of getRandomPort: "none", "open", "closed"
    lnFile,       \* the descriptor copy handed to the child: "none", "open"
    child,        \* the child: "none", "starting", "accepting", "exited"
    reaped,       \* Command.Wait has returned
    pipe,         \* pipe[s]: the harness's end of stream s
    waited,       \* failed connection attempts of the readiness wait
    hTask,        \* hTask[k]: the two log readers and the exit-wait task
    hWg,          \* the handle's WaitGroup counter
    hStopPc,      \* position of Catbox.stop
    killed,       \* what Process.Kill returned: "none", "ok", "finished"
    hFatal,       \* the harness process has exited through log.Fatalf
    builds,       \* history: executions of go build in this process
    calls         \* history: calls of harnessCatbox in this process

\* The second client of TestPRIVMSG (its reader loop and its inbound queue) and
\* what the server has sent it.
VARIABLES
    peerPc,       \* position of the second client's reader loop
    peerCur,      \* the message its reader is handling
    peerRecv,     \* its recvChan
    peerRecvClosed,
    peerErrs,     \* entries its reader has put on its errChan
    peerNet,      \* lines the server has sent it and it has not read
    peerSent,     \* history: number of lines the server has sent it
    peerGot       \* history: what its caller has received from its recvChan

peerVars == << peerPc, peerCur, peerRecv, peerRecvClosed, peerErrs, peerNet,
               peerSent, peerGot >>

\* The test helper waitForMessage, called on the client's inbound queue.
VARIABLES
    wPc,          \* position of waitForMessage: "idle", "select", "returned"
                  \* (with the message), "timedout" (with nil)
    wWant,        \* want.Command
    wGot,         \* the message it has returned
    wSpun         \* history: it has received from the closed queue

waitVars == << wPc, wWant, wGot, wSpun >>

harnessVars == << hPc, builtCatbox, configDir, listener, lnFile, child, reaped,
                  pipe, waited, hTask, hWg, hStopPc, killed, hFatal, builds,
                  calls >>

buildVars == << builtCatbox, builds, calls >>

clientVars == << startPc, startErr, conn, connBroken, nLines, chansMade,
                 recvChan, recvClosed, sendChan, sendClosed, errChan,
                 errClosed, doneClosed, wgCount, pc, cur, fn, wbuf, werr,
                 stopPc, crashed, wire, readLog, fwdLog, errCount, sentLog,
                 failedLog, rExit, errCloses, readErr, polledClosed,
                 srvLines, pending >>

vars == << startPc, startErr, conn, connBroken, nLines, chansMade,
           recvChan, recvClosed, sendChan, sendClosed, errChan, errClosed,
           doneClosed, wgCount, pc, cur, fn, wbuf, werr, stopPc, crashed,
           wire, readLog, fwdLog, errCount, sentLog, failedLog, rExit,
           errCloses, readErr, polledClosed, srvLines, pending,
           harnessVars, peerVars,
                    waitVars >>

lineVars == << nLines, srvLines, pending >>
netVars == << conn, connBroken, lineVars >>
startVars == << startPc, startErr >>
recvVars == << recvChan, recvClosed >>
sendVars == << sendChan, sendClosed >>
errVars == << errChan, errClosed, errCloses >>
bufVars == << wbuf, werr, fn >>
readerHist == << readLog, fwdLog, rExit, readErr >>

ClientInit ==
    /\ startPc = "unstarted"
    /\ startErr = "none"
    /\ conn = "none"
    /\ connBroken = FALSE
    /\ nLines = 0
    /\ chansMade = FALSE
    /\ recvChan = <<>> /\ recvClosed = FALSE
    /\ sendChan = <<>> /\ sendClosed = FALSE
    /\ errChan = <<>> /\ errClosed = FALSE
    /\ doneClosed = FALSE
    /\ wgCount = 0
    /\ pc = [t \in Tasks |-> "none"]
    /\ cur = [t \in Tasks |-> NoMsg]
    /\ fn = [t \in Tasks |-> 0]
    /\ wbuf = <<>>
    /\ werr = FALSE
    /\ stopPc = "idle"
    /\ crashed = "no"
    /\ wire = <<>>
    /\ readLog = <<>>
    /\ fwdLog = <<>>
    /\ errCount = [t \in Tasks |-> 0]
    /\ sentLog = <<>>
    /\ failedLog = <<>>
    /\ rExit = "none"
    /\ errCloses = 0
    /\ readErr = "nil"
    /\ polledClosed = FALSE
    /\ srvLines = <<>>
    /\ pending = <<>>

\* no harness call has been made; b: an earlier test of the same process has
\* built the binary
HarnessIdle(b) ==
    /\ hPc = "idle"
    /\ builtCatbox = b
    /\ configDir = "none"
    /\ listener = "none"
    /\ lnFile = "none"
    /\ child = "none"
    /\ reaped = FALSE
    /\ pipe = [s \in Streams |-> "none"]
    /\ waited = 0
    /\ hTask = [k \in HTasks |-> "none"]
    /\ hWg = 0
    /\ hStopPc = "idle"
    /\ killed = "none"
    /\ hFatal = FALSE
    /\ builds = (IF b THEN 1 ELSE 0)
    /\ calls = (IF b THEN 1 ELSE 0)

\* the second client has not been started
PeerInit ==
    /\ peerPc = "none"
    /\ peerCur = NoMsg
    /\ peerRecv = <<>> /\ peerRecvClosed = FALSE
    /\ peerErrs = 0
    /\ peerNet = <<>>
    /\ peerSent = 0
    /\ peerGot = <<>>

\* waitForMessage has not been called
WaitInit ==
    /\ wPc = "idle"
    /\ wWant = "none"
    /\ wGot = NoMsg
    /\ wSpun = FALSE

Init == ClientInit /\ PeerInit /\ WaitInit /\ HarnessIdle(FALSE)

HarnessInit ==
    ClientInit /\ PeerInit /\ WaitInit /\ \E b \in BOOLEAN : HarnessIdle(b)

(* ---- environment: server and network ---- *)

ConnFail ==
    /\ crashed = "no"
    /\ conn = "open" /\ ~connBroken
    /\ connBroken' = TRUE
    /\ UNCHANGED << startVars, conn, lineVars, chansMade, recvVars, sendVars,
                    errVars, doneClosed, wgCount, pc, cur, bufVars, stopPc,
                    crashed, wire, readerHist, errCount, sentLog, failedLog,
                    polledClosed, harnessVars, peerVars,
                    waitVars >>

(* ---- Client.start ---- *)

\* writeMessage when no other task uses the connection: the whole write path
\* succeeds or fails at once.
WriteSucceeds(m) == ~EncodeFails(m) /\ conn = "open" /\ ~werr /\ ~connBroken

connect ==
    /\ crashed = "no"
    /\ startPc = "unstarted"
    /\ \/ /\ conn' = "open"
          /\ startPc' = "nick"
          /\ UNCHANGED startErr
       \/ /\ startPc' = "failed"
          /\ startErr' = "dial"
          /\ UNCHANGED conn
    /\ UNCHANGED << connBroken, lineVars, chansMade, recvVars, sendVars,
                    errVars, doneClosed, wgCount, pc, cur, bufVars, stopPc,
                    crashed, wire, readerHist, errCount, sentLog, failedLog,
                    polledClosed, harnessVars, peerVars,
                    waitVars >>

\* startWriteNick with the loops launched before the USER write
startWriteNick_LoopsEarly ==
    /\ crashed = "no"
    /\ startPc = "nick"
    /\ IF WriteSucceeds(NickMsg)
       THEN /\ wire' = Append(wire, NickMsg)
            /\ startPc' = "user"
            /\ chansMade' = TRUE
            /\ wgCount' = 2
            /\ pc' = [reader |-> "check", writer |-> "select"]
            /\ UNCHANGED << startErr, conn >>
       ELSE /\ conn' = "closed"
            /\ startPc' = "failed"
            /\ startErr' = "nick"
            /\ UNCHANGED << wire, chansMade, wgCount, pc >>
    /\ UNCHANGED << connBroken, lineVars, recvVars, sendVars, errVars,
                    doneClosed, cur, bufVars, stopPc, crashed, readerHist,
                    errCount, sentLog, failedLog, polledClosed, harnessVars, peerVars,
                    waitVars >>

startWriteNick ==
    /\ crashed = "no"
    /\ startPc = "nick"
    /\ IF WriteSucceeds(NickMsg)
       THEN /\ wire' = Append(wire, NickMsg)
            /\ startPc' = "user"
            /\ UNCHANGED << startErr, conn >>
       ELSE /\ conn' = "closed"
            /\ startPc' = "failed"
            /\ startErr' = "nick"
            /\ UNCHANGED wire
    /\ UNCHANGED << connBroken, lineVars, chansMade, recvVars, sendVars,
                    errVars, doneClosed, wgCount, pc, cur, bufVars, stopPc,
                    crashed, readerHist, errCount, sentLog, failedLog,
                    polledClosed, harnessVars, peerVars,
                    waitVars >>

\* startWriteUser returning the error without closing the connection
startWriteUser_NoClose ==
    /\ crashed = "no"
    /\ startPc = "user"
    /\ IF WriteSucceeds(UserMsg)
       THEN /\ wire' = Append(wire, UserMsg)
            /\ startPc' = "spawn"
            /\ UNCHANGED << startErr, conn >>
       ELSE /\ startPc' = "failed"
            /\ startErr' = "user"
            /\ UNCHANGED << wire, conn >>
    /\ UNCHANGED << connBroken, lineVars, chansMade, recvVars, sendVars,
                    errVars, doneClosed, wgCount, pc, cur, bufVars, stopPc,
                    crashed, readerHist, errCount, sentLog, failedLog,
                    polledClosed, harnessVars, peerVars,
                    waitVars >>

startWriteUser ==
    /\ crashed = "no"
    /\ startPc = "user"
    /\ IF WriteSucceeds(UserMsg)
       THEN /\ wire' = Append(wire, UserMsg)
            /\ startPc' = "spawn"
            /\ UNCHANGED << startErr, conn >>
       ELSE /\ conn' = "closed"
            /\ startPc' = "failed"
            /\ startErr' = "user"
            /\ UNCHANGED wire
    /\ UNCHANGED << connBroken, lineVars, chansMade, recvVars, sendVars,
                    errVars, doneClosed, wgCount, pc, cur, bufVars, stopPc,
                    crashed, readerHist, errCount, sentLog, failedLog,
                    polledClosed, harnessVars, peerVars,
                    waitVars >>

\* make the channels, wg.Add(1) twice, go reader, go writer, return
startSpawn ==
    /\ crashed = "no"
    /\ startPc = "spawn"
    /\ chansMade' = TRUE
    /\ wgCount' = 2
    /\ pc' = [reader |-> "check", writer |-> "select"]
    /\ startPc' = "running"
    /\ UNCHANGED << startErr, netVars, recvVars, sendVars, errVars,
                    doneClosed, cur, bufVars, stopPc, crashed, wire,
                    readerHist, errCount, sentLog, failedLog, polledClosed,
                    harnessVars, peerVars,
                    waitVars >>

(* ---- Client.writeMessage, as used by the two loops ---- *)

OkPc(t) == IF t = "reader" THEN "fwd" ELSE "select"

FailPc(t) == IF t = "reader" THEN "pongerr" ELSE "writeerr"

\* writeMessage returns an error to task t, which was writing m
writeFails(t, m) ==
    /\ pc' = [pc EXCEPT ![t] = FailPc(t)]
    /\ failedLog' = IF t = "writer" THEN Append(failedLog, m) ELSE failedLog

writeReturnsNil(t) ==
    /\ pc' = [pc EXCEPT ![t] = OkPc(t)]
    /\ UNCHANGED failedLog

\* m.Encode(), c.conn.SetWriteDeadline(), c.rw.WriteString(buf)
writeString(t, m) ==
    IF EncodeFails(m) \/ conn # "open" \/ werr
    THEN /\ writeFails(t, m)
         /\ UNCHANGED wbuf
    ELSE /\ wbuf' = Append(wbuf, m)
         /\ pc' = [pc EXCEPT ![t] = "flush"]
         /\ UNCHANGED failedLog

\* c.rw.Flush(), up to and including the Write on the connection: a sticky
\* error is returned, an empty buffer is a success, otherwise the whole buffer
\* (whoever filled it) goes to the connection
flushWrite(t) ==
    /\ crashed = "no"
    /\ pc[t] = "flush"
    /\ IF werr
       THEN /\ writeFails(t, cur[t])
            /\ cur' = [cur EXCEPT ![t] = NoMsg]
            /\ UNCHANGED << wire, fn, werr >>
       ELSE IF wbuf = <<>>
       THEN /\ writeReturnsNil(t)
            /\ cur' = [cur EXCEPT ![t] = IF t = "writer" THEN NoMsg ELSE @]
            /\ UNCHANGED << wire, fn, werr >>
       ELSE IF connBroken
       THEN /\ werr' = TRUE
            /\ writeFails(t, cur[t])
            /\ cur' = [cur EXCEPT ![t] = NoMsg]
            /\ UNCHANGED << wire, fn >>
       ELSE /\ wire' = wire \o wbuf
            /\ fn' = [fn EXCEPT ![t] = Len(wbuf)]
            /\ pc' = [pc EXCEPT ![t] = "flushed"]
            /\ UNCHANGED << werr, failedLog, cur >>
    /\ UNCHANGED << startVars, netVars, chansMade, recvVars, sendVars,
                    errVars, doneClosed, wgCount, wbuf, stopPc, crashed,
                    readerHist, errCount, sentLog, polledClosed, harnessVars, peerVars,
                    waitVars >>

\* c.rw.Flush(), after the Write: a buffer that has grown past what was
\* written (the other task appended meanwhile) is a short write, kept as the
\* sticky error; otherwise the buffer is reset, whatever it holds
flushEnd(t) ==
    /\ crashed = "no"
    /\ pc[t] = "flushed"
    /\ IF fn[t] < Len(wbuf)
       THEN /\ werr' = TRUE
            /\ wbuf' = SubSeq(wbuf, fn[t] + 1, Len(wbuf))
            /\ writeFails(t, cur[t])
            /\ cur' = [cur EXCEPT ![t] = NoMsg]
       ELSE /\ wbuf' = <<>>
            /\ writeReturnsNil(t)
            /\ cur' = [cur EXCEPT ![t] = IF t = "writer" THEN NoMsg ELSE @]
            /\ UNCHANGED werr
    /\ fn' = [fn EXCEPT ![t] = 0]
    /\ UNCHANGED << startVars, netVars, chansMade, recvVars, sendVars,
                    errVars, doneClosed, wgCount, stopPc, crashed, wire,
                    readerHist, errCount, sentLog, polledClosed, harnessVars, peerVars,
                    waitVars >>

(* ---- Client.reader ---- *)

\* readerCheck returning on the shutdown signal without close(recvChan)
readerCheck_NoClose ==
    /\ crashed = "no"
    /\ pc["reader"] = "check"
    /\ IF doneClosed
       THEN /\ wgCount' = wgCount - 1
            /\ UNCHANGED recvClosed
            /\ pc' = [pc EXCEPT !["reader"] = "done"]
            /\ rExit' = "shutdown"
       ELSE /\ pc' = [pc EXCEPT !["reader"] = "read"]
            /\ UNCHANGED << recvClosed, wgCount, rExit >>
    /\ readErr' = "nil"
    /\ UNCHANGED << startVars, netVars, chansMade, recvChan, sendVars,
                    errVars, doneClosed, cur, bufVars, stopPc, crashed, wire,
                    readLog, fwdLog, errCount, sentLog, failedLog,
                    polledClosed, harnessVars, peerVars,
                    waitVars >>

\* select { case <-c.doneChan: close(recvChan); return; default: }
readerCheck ==
    /\ crashed = "no"
    /\ pc["reader"] = "check"
    /\ IF doneClosed
       THEN /\ recvClosed' = TRUE
            /\ wgCount' = wgCount - 1
            /\ pc' = [pc EXCEPT !["reader"] = "done"]
            /\ rExit' = "shutdown"
       ELSE /\ pc' = [pc EXCEPT !["reader"] = "read"]
            /\ UNCHANGED << recvClosed, wgCount, rExit >>
    /\ readErr' = "nil"
    /\ UNCHANGED << startVars, netVars, chansMade, recvChan, sendVars,
                    errVars, doneClosed, cur, bufVars, stopPc, crashed, wire,
                    readLog, fwdLog, errCount, sentLog, failedLog,
                    polledClosed, harnessVars, peerVars,
                    waitVars >>

\* if err != nil: continue when the text of err contains "i/o timeout",
\* otherwise go on to post it
readerOnErr(err) ==
    pc' = [pc EXCEPT !["reader"] =
             IF Contains(err, Timeout) THEN "check" ELSE "readerr"]

\* readerTimeout taking the deadline expiry for a fatal error
readerTimeout_Fatal ==
    /\ crashed = "no"
    /\ pc["reader"] = "read"
    /\ ~connBroken
    /\ readErr' = "timeout"
    /\ pc' = [pc EXCEPT !["reader"] = "readerr"]
    /\ UNCHANGED << startVars, netVars, chansMade, recvVars, sendVars, errVars,
                    doneClosed, wgCount, cur, bufVars, stopPc, crashed, wire,
                    readLog, fwdLog, rExit, errCount, sentLog, failedLog,
                    polledClosed, harnessVars, peerVars,
                    waitVars >>

\* readMessage: the read deadline expires before a line has arrived
readerTimeout ==
    /\ crashed = "no"
    /\ pc["reader"] = "read"
    /\ ~connBroken
    /\ readErr' = "timeout"
    /\ readerOnErr(DeadlineErr)
    /\ UNCHANGED << startVars, netVars, chansMade, recvVars, sendVars, errVars,
                    doneClosed, wgCount, cur, bufVars, stopPc, crashed, wire,
                    readLog, fwdLog, rExit, errCount, sentLog, failedLog,
                    polledClosed, harnessVars, peerVars,
                    waitVars >>

\* readMessage: ReadString has the beginning of a line when the deadline
\* expires; it returns these bytes together with the error, and readMessage
\* returns the error alone.  The rest of the line is what the next read finds.
readerTimeoutMidLine(line) ==
    /\ crashed = "no"
    /\ pc["reader"] = "read"
    /\ ~connBroken
    /\ pending = <<>>
    /\ Len(line) >= 2
    /\ nLines + Len(sentLog) < MaxTraffic
    /\ nLines' = nLines + 1
    /\ srvLines' = Append(srvLines, line)
    /\ pending' = Tail(line)
    /\ readErr' = "timeout"
    /\ readerOnErr(DeadlineErr)
    /\ UNCHANGED << startVars, conn, connBroken, chansMade, recvVars,
                    sendVars, errVars, doneClosed, wgCount, cur, bufVars,
                    stopPc, crashed, wire, readLog, fwdLog, rExit, errCount,
                    sentLog, failedLog, polledClosed, harnessVars, peerVars,
                    waitVars >>

\* readMessage reads the line the server has sent next, or what is left of the
\* line a deadline has cut, and parses it
readerReadLine(line) ==
    /\ crashed = "no"
    /\ pc["reader"] = "read"
    /\ IF pending = <<>>
       THEN /\ nLines + Len(sentLog) < MaxTraffic
            /\ line \in ServerLines
            /\ nLines' = nLines + 1
            /\ srvLines' = Append(srvLines, line)
       ELSE /\ line = pending
            /\ UNCHANGED << nLines, srvLines >>
    /\ pending' = <<>>
    /\ IF ParseFails(line)
       THEN /\ readErr' = "parse"
            /\ readerOnErr(ParseErr(line))
            /\ UNCHANGED << cur, readLog >>
       ELSE LET m == ParseMessage(line) IN
            /\ readErr' = "nil"
            /\ cur' = [cur EXCEPT !["reader"] = m]
            /\ readLog' = Append(readLog, m)
            /\ pc' = [pc EXCEPT !["reader"] =
                        IF m.Command = "PING" THEN "pong" ELSE "fwd"]
    /\ UNCHANGED << startVars, conn, connBroken, chansMade, recvVars,
                    sendVars, errVars, doneClosed, wgCount, bufVars, stopPc,
                    crashed, wire, fwdLog, rExit, errCount, sentLog,
                    failedLog, polledClosed, harnessVars, peerVars,
                    waitVars >>

\* readMessage: the read on the failed connection returns an error
readerReadFails ==
    /\ crashed = "no"
    /\ pc["reader"] = "read"
    /\ connBroken
    /\ readErr' = "read"
    /\ readerOnErr(EOFErr)
    /\ UNCHANGED << startVars, netVars, chansMade, recvVars, sendVars, errVars,
                    doneClosed, wgCount, cur, bufVars, stopPc, crashed, wire,
                    readLog, fwdLog, rExit, errCount, sentLog, failedLog,
                    polledClosed, harnessVars, peerVars,
                    waitVars >>

\* if m.Command == "PING": build the PONG from m.Params[0] and start writing it
readerPong ==
    /\ crashed = "no"
    /\ pc["reader"] = "pong"
    /\ IF Len(cur["reader"].Params) = 0
       THEN /\ crashed' = "index out of range"
            /\ rExit' = "panic"
            /\ UNCHANGED << pc, wbuf, failedLog >>
       ELSE /\ writeString("reader", PongMsg(cur["reader"]))
            /\ UNCHANGED << crashed, rExit >>
    /\ cur' = [cur EXCEPT !["reader"] =
                 IF pc'["reader"] = "pongerr" THEN NoMsg ELSE @]
    /\ UNCHANGED << startVars, netVars, chansMade, recvVars, sendVars,
                    errVars, doneClosed, wgCount, fn, werr, stopPc, wire,
                    readLog, fwdLog, errCount, sentLog, readErr, polledClosed,
                    harnessVars, peerVars,
                    waitVars >>

\* readerPostErr returning without close(recvChan)
readerPostErr_NoClose ==
    /\ crashed = "no"
    /\ pc["reader"] \in {"readerr", "pongerr"}
    /\ errClosed \/ Len(errChan) < ErrCap
    /\ IF errClosed
       THEN /\ crashed' = "send on closed channel"
            /\ UNCHANGED << errChan, errCount, wgCount, pc, rExit >>
       ELSE /\ errChan' = Append(errChan, pc["reader"])
            /\ errCount' = [errCount EXCEPT !["reader"] = @ + 1]
            /\ wgCount' = wgCount - 1
            /\ rExit' = pc["reader"]
            /\ pc' = [pc EXCEPT !["reader"] = "done"]
            /\ UNCHANGED crashed
    /\ readErr' = "nil"
    /\ UNCHANGED << startVars, netVars, chansMade, recvVars, sendVars,
                    errClosed, errCloses, doneClosed, cur, bufVars, stopPc,
                    wire, readLog, fwdLog, sentLog, failedLog, polledClosed,
                    harnessVars, peerVars,
                    waitVars >>

\* c.errChan <- err; close(recvChan); return
readerPostErr ==
    /\ crashed = "no"
    /\ pc["reader"] \in {"readerr", "pongerr"}
    /\ errClosed \/ Len(errChan) < ErrCap
    /\ IF errClosed
       THEN /\ crashed' = "send on closed channel"
            /\ UNCHANGED << errChan, errCount, recvClosed, wgCount, pc, rExit >>
       ELSE /\ errChan' = Append(errChan, pc["reader"])
            /\ errCount' = [errCount EXCEPT !["reader"] = @ + 1]
            /\ recvClosed' = TRUE
            /\ wgCount' = wgCount - 1
            /\ rExit' = pc["reader"]
            /\ pc' = [pc EXCEPT !["reader"] = "done"]
            /\ UNCHANGED crashed
    /\ readErr' = "nil"
    /\ UNCHANGED << startVars, netVars, chansMade, recvChan, sendVars,
                    errClosed, errCloses, doneClosed, cur, bufVars, stopPc,
                    wire, readLog, fwdLog, sentLog, failedLog, polledClosed,
                    harnessVars, peerVars,
                    waitVars >>

\* readerForward that answers a PING but does not forward it
readerForward_SkipPing ==
    /\ crashed = "no"
    /\ pc["reader"] = "fwd"
    /\ Len(recvChan) < RecvCap
    /\ IF cur["reader"].Command = "PING"
       THEN UNCHANGED << recvChan, fwdLog >>
       ELSE /\ recvChan' = Append(recvChan, cur["reader"])
            /\ fwdLog' = Append(fwdLog, cur["reader"])
    /\ pc' = [pc EXCEPT !["reader"] = "check"]
    /\ cur' = [cur EXCEPT !["reader"] = NoMsg]
    /\ UNCHANGED << startVars, netVars, chansMade, recvClosed, sendVars,
                    errVars, doneClosed, wgCount, bufVars, stopPc, crashed,
                    wire, readLog, rExit, errCount, sentLog, failedLog,
                    readErr, polledClosed, harnessVars, peerVars,
                    waitVars >>

\* recvChan <- m
readerForward ==
    /\ crashed = "no"
    /\ pc["reader"] = "fwd"
    /\ Len(recvChan) < RecvCap
    /\ recvChan' = Append(recvChan, cur["reader"])
    /\ fwdLog' = Append(fwdLog, cur["reader"])
    /\ pc' = [pc EXCEPT !["reader"] = "check"]
    /\ cur' = [cur EXCEPT !["reader"] = NoMsg]
    /\ UNCHANGED << startVars, netVars, chansMade, recvClosed, sendVars,
                    errVars, doneClosed, wgCount, bufVars, stopPc, crashed,
                    wire, readLog, rExit, errCount, sentLog, failedLog,
                    readErr, polledClosed, harnessVars, peerVars,
                    waitVars >>

reader ==
    \/ readerCheck
    \/ readerTimeout
    \/ \E line \in ServerLines : readerTimeoutMidLine(line)
    \/ \E line \in ServerLines \cup Rests : readerReadLine(line)
    \/ readerReadFails
    \/ readerPong
    \/ flushWrite("reader")
    \/ flushEnd("reader")
    \/ readerPostErr
    \/ readerForward

(* ---- Client.writer ---- *)

\* select: case <-c.doneChan: break LOOP
writerSelectDone ==
    /\ crashed = "no"
    /\ pc["writer"] = "select"
    /\ doneClosed
    /\ pc' = [pc EXCEPT !["writer"] = "drain"]
    /\ UNCHANGED << startVars, netVars, chansMade, recvVars, sendVars,
                    errVars, doneClosed, wgCount, cur, bufVars, stopPc,
                    crashed, wire, readerHist, errCount, sentLog, failedLog,
                    polledClosed, harnessVars, peerVars,
                    waitVars >>

\* writerSelectMsg serving the outbound queue only while the reader runs
writerSelectMsg_WhileReaderRuns ==
    /\ crashed = "no"
    /\ pc["writer"] = "select"
    /\ pc["reader"] # "done"
    /\ sendChan # <<>>
    /\ sendChan' = Tail(sendChan)
    /\ writeString("writer", Head(sendChan))
    /\ cur' = [cur EXCEPT !["writer"] =
                 IF pc'["writer"] = "writeerr" THEN NoMsg ELSE Head(sendChan)]
    /\ UNCHANGED << startVars, netVars, chansMade, recvVars, sendClosed,
                    errVars, doneClosed, wgCount, fn, werr, stopPc, crashed,
                    wire, readerHist, errCount, sentLog, polledClosed,
                    harnessVars, peerVars,
                    waitVars >>

\* select: case m, ok := <-sendChan with ok: start writing m
writerSelectMsg ==
    /\ crashed = "no"
    /\ pc["writer"] = "select"
    /\ sendChan # <<>>
    /\ sendChan' = Tail(sendChan)
    /\ writeString("writer", Head(sendChan))
    /\ cur' = [cur EXCEPT !["writer"] =
                 IF pc'["writer"] = "writeerr" THEN NoMsg ELSE Head(sendChan)]
    /\ UNCHANGED << startVars, netVars, chansMade, recvVars, sendClosed,
                    errVars, doneClosed, wgCount, fn, werr, stopPc, crashed,
                    wire, readerHist, errCount, sentLog, polledClosed,
                    harnessVars, peerVars,
                    waitVars >>

\* select: case m, ok := <-sendChan with !ok: break leaves the select only
writerSelectClosed ==
    /\ crashed = "no"
    /\ pc["writer"] = "select"
    /\ sendChan = <<>> /\ sendClosed
    /\ polledClosed' = TRUE
    /\ UNCHANGED << startVars, netVars, chansMade, recvVars, sendVars, errVars,
                    doneClosed, wgCount, pc, cur, bufVars, stopPc, crashed,
                    wire, readerHist, errCount, sentLog, failedLog,
                    harnessVars, peerVars,
                    waitVars >>

\* c.errChan <- err; break leaves the select only
writerPostErr ==
    /\ crashed = "no"
    /\ pc["writer"] = "writeerr"
    /\ errClosed \/ Len(errChan) < ErrCap
    /\ IF errClosed
       THEN /\ crashed' = "send on closed channel"
            /\ UNCHANGED << errChan, errCount, pc >>
       ELSE /\ errChan' = Append(errChan, "writeerr")
            /\ errCount' = [errCount EXCEPT !["writer"] = @ + 1]
            /\ pc' = [pc EXCEPT !["writer"] = "select"]
            /\ UNCHANGED crashed
    /\ UNCHANGED << startVars, netVars, chansMade, recvVars, sendVars,
                    errClosed, errCloses, doneClosed, wgCount, cur, bufVars,
                    stopPc, wire, readerHist, sentLog, failedLog,
                    polledClosed, harnessVars, peerVars,
                    waitVars >>

\* writerDrain writing what it takes from the queue to the connection
writerDrain_Writes ==
    /\ crashed = "no"
    /\ pc["writer"] = "drain"
    /\ IF sendChan # <<>>
       THEN /\ sendChan' = Tail(sendChan)
            /\ wire' = Append(wire, Head(sendChan))
            /\ UNCHANGED << pc, wgCount >>
       ELSE /\ sendClosed
            /\ pc' = [pc EXCEPT !["writer"] = "done"]
            /\ wgCount' = wgCount - 1
            /\ UNCHANGED << sendChan, wire >>
    /\ UNCHANGED << startVars, netVars, chansMade, recvVars, sendClosed,
                    errVars, doneClosed, cur, bufVars, stopPc, crashed,
                    readerHist, errCount, sentLog, failedLog, polledClosed,
                    harnessVars, peerVars,
                    waitVars >>

\* for range sendChan {}, then the deferred c.wg.Done()
writerDrain ==
    /\ crashed = "no"
    /\ pc["writer"] = "drain"
    /\ IF sendChan # <<>>
       THEN /\ sendChan' = Tail(sendChan)
            /\ UNCHANGED << pc, wgCount >>
       ELSE /\ sendClosed
            /\ pc' = [pc EXCEPT !["writer"] = "done"]
            /\ wgCount' = wgCount - 1
            /\ UNCHANGED sendChan
    /\ UNCHANGED << startVars, netVars, chansMade, recvVars, sendClosed,
                    errVars, doneClosed, cur, bufVars, stopPc, crashed, wire,
                    readerHist, errCount, sentLog, failedLog, polledClosed,
                    harnessVars, peerVars,
                    waitVars >>

writer ==
    \/ writerSelectDone
    \/ writerSelectMsg
    \/ writerSelectClosed
    \/ flushWrite("writer")
    \/ flushEnd("writer")
    \/ writerPostErr
    \/ writerDrain

(* ---- Client.stop ---- *)

\* close(c.doneChan)
stopCloseDone ==
    /\ crashed = "no"
    /\ startPc = "running"
    /\ stopPc = "idle"
    /\ doneClosed' = TRUE
    /\ stopPc' = "closeSend"
    /\ UNCHANGED << startVars, netVars, chansMade, recvVars, sendVars,
                    errVars, wgCount, pc, cur, bufVars, crashed, wire,
                    readerHist, errCount, sentLog, failedLog, polledClosed,
                    harnessVars, peerVars,
                    waitVars >>

\* close(c.sendChan): a panic when the caller has closed it already
stopCloseSend ==
    /\ crashed = "no"
    /\ stopPc = "closeSend"
    /\ IF sendClosed
       THEN /\ crashed' = "close of closed channel"
            /\ UNCHANGED << sendClosed, stopPc >>
       ELSE /\ sendClosed' = TRUE
            /\ stopPc' = "wait"
            /\ UNCHANGED crashed
    /\ UNCHANGED << startVars, netVars, chansMade, recvVars, sendChan, errVars,
                    doneClosed, wgCount, pc, cur, bufVars, wire, readerHist,
                    errCount, sentLog, failedLog, polledClosed, harnessVars, peerVars,
                    waitVars >>

\* stopWait closing the error queue without waiting for the loops
stopWait_NoWait ==
    /\ crashed = "no"
    /\ stopPc = "wait"
    /\ errClosed' = TRUE
    /\ errCloses' = errCloses + 1
    /\ stopPc' = "closeConn"
    /\ UNCHANGED << startVars, netVars, chansMade, recvVars, sendVars,
                    errChan, doneClosed, wgCount, pc, cur, bufVars, crashed,
                    wire, readerHist, errCount, sentLog, failedLog,
                    polledClosed, harnessVars, peerVars,
                    waitVars >>

\* c.wg.Wait(), then close(c.errChan)
stopWait ==
    /\ crashed = "no"
    /\ stopPc = "wait"
    /\ wgCount = 0
    /\ errClosed' = TRUE
    /\ errCloses' = errCloses + 1
    /\ stopPc' = "closeConn"
    /\ UNCHANGED << startVars, netVars, chansMade, recvVars, sendVars,
                    errChan, doneClosed, wgCount, pc, cur, bufVars, crashed,
                    wire, readerHist, errCount, sentLog, failedLog,
                    polledClosed, harnessVars, peerVars,
                    waitVars >>

\* c.conn.Close()
stopCloseConn ==
    /\ crashed = "no"
    /\ stopPc = "closeConn"
    /\ conn' = "closed"
    /\ stopPc' = "drain"
    /\ UNCHANGED << startVars, connBroken, lineVars, chansMade, recvVars,
                    sendVars, errVars, doneClosed, wgCount, pc, cur, bufVars,
                    crashed, wire, readerHist, errCount, sentLog, failedLog,
                    polledClosed, harnessVars, peerVars,
                    waitVars >>

\* stopDrain returning without discarding what the queues hold
stopDrain_NoDrain ==
    /\ crashed = "no"
    /\ stopPc = "drain"
    /\ recvClosed /\ errClosed
    /\ stopPc' = "returned"
    /\ UNCHANGED << startVars, netVars, chansMade, recvVars, sendVars,
                    errVars, doneClosed, wgCount, pc, cur, bufVars, crashed,
                    wire, readerHist, errCount, sentLog, failedLog,
                    polledClosed, harnessVars, peerVars,
                    waitVars >>

\* for range c.recvChan {}; for range c.errChan {}; return
stopDrain ==
    /\ crashed = "no"
    /\ stopPc = "drain"
    /\ recvClosed /\ errClosed
    /\ recvChan' = <<>>
    /\ errChan' = <<>>
    /\ stopPc' = "returned"
    /\ UNCHANGED << startVars, netVars, chansMade, recvClosed, sendVars,
                    errClosed, errCloses, doneClosed, wgCount, pc, cur,
                    bufVars, crashed, wire, readerHist, errCount, sentLog,
                    failedLog, polledClosed, harnessVars, peerVars,
                    waitVars >>

stop ==
    \/ stopCloseDone
    \/ stopCloseSend
    \/ stopWait
    \/ stopCloseConn
    \/ stopDrain

(* ---- environment: the caller ---- *)

\* sendChan <- m; never after stop has been called or the caller has closed
\* sendChan
callerSend(good) ==
    /\ crashed = "no"
    /\ startPc = "running" /\ stopPc = "idle"
    /\ ~sendClosed
    /\ nLines + Len(sentLog) < MaxTraffic
    /\ Len(sendChan) < SendCap
    /\ LET m == CallerMsg(Len(sentLog) + 1, good) IN
       /\ sendChan' = Append(sendChan, m)
       /\ sentLog' = Append(sentLog, m)
    /\ UNCHANGED << startVars, netVars, chansMade, recvVars, sendClosed,
                    errVars, doneClosed, wgCount, pc, cur, bufVars, stopPc,
                    crashed, wire, readerHist, errCount, failedLog,
                    polledClosed, harnessVars, peerVars,
                    waitVars >>

\* <-recvChan
callerRecv ==
    /\ crashed = "no"
    /\ startPc = "running" /\ stopPc = "idle"
    /\ recvChan # <<>>
    /\ recvChan' = Tail(recvChan)
    /\ UNCHANGED << startVars, netVars, chansMade, recvClosed, sendVars,
                    errVars, doneClosed, wgCount, pc, cur, bufVars, stopPc,
                    crashed, wire, readerHist, errCount, sentLog, failedLog,
                    polledClosed, harnessVars, peerVars,
                    waitVars >>

\* <-errChan
callerRecvErr ==
    /\ crashed = "no"
    /\ startPc = "running" /\ stopPc = "idle"
    /\ errChan # <<>>
    /\ errChan' = Tail(errChan)
    /\ UNCHANGED << startVars, netVars, chansMade, recvVars, sendVars,
                    errClosed, errCloses, doneClosed, wgCount, pc, cur,
                    bufVars, stopPc, crashed, wire, readerHist, errCount,
                    sentLog, failedLog, polledClosed, harnessVars, peerVars,
                    waitVars >>

\* close(sendChan) by the caller, without Client.stop
callerCloseSend ==
    /\ crashed = "no"
    /\ startPc = "running" /\ stopPc = "idle"
    /\ ~sendClosed
    /\ sendClosed' = TRUE
    /\ UNCHANGED << startVars, netVars, chansMade, recvVars, sendChan, errVars,
                    doneClosed, wgCount, pc, cur, bufVars, stopPc, crashed,
                    wire, readerHist, errCount, sentLog, failedLog,
                    polledClosed, harnessVars, peerVars,
                    waitVars >>

(* ---- specification ---- *)

start ==
    \/ connect
    \/ startWriteNick
    \/ startWriteUser
    \/ startSpawn

Next ==
    \/ start
    \/ reader
    \/ writer
    \/ stop
    \/ ConnFail
    \/ \E good \in BOOLEAN : callerSend(good)
    \/ callerRecv
    \/ callerRecvErr
    \/ callerCloseSend

Spec == Init /\ [][Next]_vars

\* Scheduling: a goroutine that can take a step eventually takes one; a select
\* with several ready cases eventually picks each of them; stop, once called,
\* runs on.  The server, the network and the caller are under no obligation.
stopRest == stopCloseSend \/ stopWait \/ stopCloseConn \/ stopDrain

FairSpec ==
    /\ Spec
    /\ WF_vars(reader)
    /\ WF_vars(writer)
    /\ SF_vars(writerSelectDone)
    /\ WF_vars(stopRest)

(* ---- harnessCatbox ---- *)

\* a test calls harnessCatbox: the first call of the process, or the next
\* after the call before it has failed or its handle has been stopped; the
\* variables of a call describe the latest one
harnessCall ==
    /\ ~hFatal
    /\ hPc = "idle" \/ hPc = "failed" \/ hStopPc = "returned"
    /\ calls < MaxCalls
    /\ calls' = calls + 1
    /\ hPc' = "build"
    /\ configDir' = "none"
    /\ listener' = "none"
    /\ lnFile' = "none"
    /\ child' = "none"
    /\ reaped' = FALSE
    /\ pipe' = [s \in Streams |-> "none"]
    /\ waited' = 0
    /\ hTask' = [k \in HTasks |-> "none"]
    /\ hWg' = 0
    /\ hStopPc' = "idle"
    /\ killed' = "none"
    /\ UNCHANGED << clientVars, peerVars, waitVars, builtCatbox, builds, hFatal >>

\* buildCatbox leaving the flag as it is after a successful build
buildCatbox_NoFlag ==
    /\ ~hFatal
    /\ hPc = "build"
    /\ IF builtCatbox
       THEN /\ hPc' = "tempdir"
            /\ UNCHANGED builds
       ELSE /\ builds' = builds + 1
            /\ hPc' \in {"tempdir", "failed"}
    /\ UNCHANGED << clientVars, peerVars, waitVars, builtCatbox, calls, configDir, listener,
                    lnFile, child, reaped, pipe, waited, hTask, hWg, hStopPc,
                    killed, hFatal >>

\* buildCatbox: skipped when the flag is set; otherwise go build is run, and
\* either succeeds and sets the flag, or fails and harnessCatbox returns the
\* error
buildCatbox ==
    /\ ~hFatal
    /\ hPc = "build"
    /\ IF builtCatbox
       THEN /\ hPc' = "tempdir"
            /\ UNCHANGED << builtCatbox, builds >>
       ELSE /\ builds' = builds + 1
            /\ \/ /\ builtCatbox' = TRUE
                  /\ hPc' = "tempdir"
               \/ /\ hPc' = "failed"
                  /\ UNCHANGED builtCatbox
    /\ UNCHANGED << clientVars, peerVars, waitVars, calls, configDir, listener, lnFile, child,
                    reaped, pipe, waited, hTask, hWg, hStopPc, killed,
                    hFatal >>

\* startCatbox: ioutil.TempDir
tempDir ==
    /\ ~hFatal
    /\ hPc = "tempdir"
    /\ \/ /\ configDir' = "exists"
          /\ hPc' = "port"
       \/ /\ hPc' = "failed"
          /\ UNCHANGED configDir
    /\ UNCHANGED << clientVars, peerVars, waitVars, buildVars, listener, lnFile, child, reaped,
                    pipe, waited, hTask, hWg, hStopPc, killed, hFatal >>

\* startCatbox: getRandomPort; on its error the directory is removed
getRandomPort ==
    /\ ~hFatal
    /\ hPc = "port"
    /\ \/ /\ listener' = "open"
          /\ hPc' = "conf"
          /\ UNCHANGED configDir
       \/ /\ configDir' = "removed"
          /\ hPc' = "failed"
          /\ UNCHANGED listener
    /\ UNCHANGED << clientVars, peerVars, waitVars, buildVars, lnFile, child, reaped, pipe,
                    waited, hTask, hWg, hStopPc, killed, hFatal >>

\* runCatbox: ioutil.WriteFile of the configuration
writeConf ==
    /\ ~hFatal
    /\ hPc = "conf"
    /\ hPc' \in {"file", "runfailed"}
    /\ UNCHANGED << clientVars, peerVars, waitVars, buildVars, configDir, listener, lnFile,
                    child, reaped, pipe, waited, hTask, hWg, hStopPc, killed,
                    hFatal >>

\* runCatbox: ln.File(), the descriptor copy for cmd.ExtraFiles
listenerFile ==
    /\ ~hFatal
    /\ hPc = "file"
    /\ \/ /\ lnFile' = "open"
          /\ hPc' = "cmdstart"
       \/ /\ hPc' = "runfailed"
          /\ UNCHANGED lnFile
    /\ UNCHANGED << clientVars, peerVars, waitVars, buildVars, configDir, listener, child,
                    reaped, pipe, waited, hTask, hWg, hStopPc, killed,
                    hFatal >>

\* runCatbox: StderrPipe, StdoutPipe, cmd.Start; on an error the pipes made so
\* far are closed
cmdStart ==
    /\ ~hFatal
    /\ hPc = "cmdstart"
    /\ \/ /\ pipe' = [s \in Streams |-> "open"]
          /\ child' = "starting"
          /\ hPc' = "dial"
       \/ /\ hPc' = "runfailed"
          /\ UNCHANGED << pipe, child >>
    /\ UNCHANGED << clientVars, peerVars, waitVars, buildVars, configDir, listener, lnFile,
                    reaped, waited, hTask, hWg, hStopPc, killed, hFatal >>

\* a socket is listening on the port: the harness's listener, its descriptor
\* copy, or the copy a running child has inherited
Listening ==
    listener = "open" \/ lnFile = "open" \/ child \in {"starting", "accepting"}

\* runCatbox: one net.DialTimeout of the readiness wait.  The connection is
\* established by the listening socket, whoever holds it; the attempt can time
\* out in any case.  A success returns the handle, a failure sleeps 100 ms.
dial(ok) ==
    /\ ~hFatal
    /\ hPc = "dial"
    /\ waited < MaxWaited
    /\ IF ok
       THEN /\ Listening
            /\ hPc' = "tasks"
            /\ UNCHANGED waited
       ELSE /\ waited' = waited + 1
            /\ UNCHANGED hPc
    /\ UNCHANGED << clientVars, peerVars, waitVars, buildVars, configDir, listener, lnFile,
                    child, reaped, pipe, hTask, hWg, hStopPc, killed, hFatal >>

\* runCatbox: the 3 s are used up
dialGiveUp ==
    /\ ~hFatal
    /\ hPc = "dial"
    /\ waited >= MaxWaited
    /\ hPc' = "readStderr"
    /\ UNCHANGED << clientVars, peerVars, waitVars, buildVars, configDir, listener, lnFile,
                    child, reaped, pipe, waited, hTask, hWg, hStopPc, killed,
                    hFatal >>

\* runCatbox: ioutil.ReadAll(s) returns at the end of the stream, which is
\* when the child has exited; then s.Close()
readAll(s) ==
    /\ ~hFatal
    /\ hPc = (IF s = "stderr" THEN "readStderr" ELSE "readStdout")
    /\ child = "exited"
    /\ pipe' = [pipe EXCEPT ![s] = "closed"]
    /\ hPc' = (IF s = "stderr" THEN "readStdout" ELSE "runfailed")
    /\ UNCHANGED << clientVars, peerVars, waitVars, buildVars, configDir, listener, lnFile,
                    child, reaped, waited, hTask, hWg, hStopPc, killed,
                    hFatal >>

\* startCatbox: runCatbox returned an error: os.RemoveAll(tmpDir),
\* listener.Close(), return the error
runCatboxFailed ==
    /\ ~hFatal
    /\ hPc = "runfailed"
    /\ configDir' = "removed"
    /\ listener' = "closed"
    /\ hPc' = "failed"
    /\ UNCHANGED << clientVars, peerVars, waitVars, buildVars, lnFile, child, reaped, pipe,
                    waited, hTask, hWg, hStopPc, killed, hFatal >>

\* harnessCatbox: wg.Add(1) and go, three times; return the handle
spawnTasks ==
    /\ ~hFatal
    /\ hPc = "tasks"
    /\ hTask' = [k \in HTasks |-> "running"]
    /\ hWg' = 3
    /\ hPc' = "live"
    /\ UNCHANGED << clientVars, peerVars, waitVars, buildVars, configDir, listener, lnFile,
                    child, reaped, pipe, waited, hStopPc, killed, hFatal >>

runCatbox ==
    \/ writeConf
    \/ listenerFile
    \/ cmdStart
    \/ \E ok \in BOOLEAN : dial(ok)
    \/ dialGiveUp
    \/ \E s \in Streams : readAll(s)

startCatbox ==
    \/ tempDir
    \/ getRandomPort
    \/ runCatbox
    \/ runCatboxFailed

harnessCatbox ==
    \/ harnessCall
    \/ buildCatbox
    \/ startCatbox
    \/ spawnTasks

(* ---- the child process ---- *)

\* the child begins to accept connections on the descriptor it was given
childReady ==
    /\ child = "starting"
    /\ child' = "accepting"
    /\ UNCHANGED << clientVars, peerVars, waitVars, hPc, buildVars, configDir, listener, lnFile,
                    reaped, pipe, waited, hTask, hWg, hStopPc, killed,
                    hFatal >>

\* the child exits of its own accord, during startup or later
childExit ==
    /\ child \in {"starting", "accepting"}
    /\ child' = "exited"
    /\ UNCHANGED << clientVars, peerVars, waitVars, hPc, buildVars, configDir, listener, lnFile,
                    reaped, pipe, waited, hTask, hWg, hStopPc, killed,
                    hFatal >>

(* ---- the background tasks of a handle ---- *)

\* logReader on stream s: scanner.Scan() returns false.  At the end of the
\* stream (the child has exited) the task finishes; on a read of a pipe that
\* Command.Wait has closed, scanner.Err() is not nil and log.Fatalf ends the
\* process.
logReader(s) ==
    /\ ~hFatal
    /\ hTask[s] = "running"
    /\ IF pipe[s] = "closed"
       THEN /\ hFatal' = TRUE
            /\ hTask' = [hTask EXCEPT ![s] = "fatal"]
            /\ UNCHANGED hWg
       ELSE /\ child = "exited"
            /\ hTask' = [hTask EXCEPT ![s] = "done"]
            /\ hWg' = hWg - 1
            /\ UNCHANGED hFatal
    /\ UNCHANGED << clientVars, peerVars, waitVars, hPc, buildVars, configDir, listener, lnFile,
                    child, reaped, pipe, waited, hStopPc, killed >>

\* go func: catbox.Command.Wait() returns once the child has exited, and
\* closes the harness's ends of the pipes
waitTask ==
    /\ ~hFatal
    /\ hTask["wait"] = "running"
    /\ child = "exited"
    /\ reaped' = TRUE
    /\ pipe' = [s \in Streams |-> "closed"]
    /\ hTask' = [hTask EXCEPT !["wait"] = "done"]
    /\ hWg' = hWg - 1
    /\ UNCHANGED << clientVars, peerVars, waitVars, hPc, buildVars, configDir, listener, lnFile,
                    child, waited, hStopPc, killed, hFatal >>

(* ---- Catbox.stop ---- *)

\* catboxStopKill removing the directory before the tasks are joined
catboxStopKill_RemovesFirst ==
    /\ ~hFatal
    /\ hPc = "live"
    /\ hStopPc = "idle"
    /\ killed' = IF reaped THEN "finished" ELSE "ok"
    /\ child' = "exited"
    /\ configDir' = "removed"
    /\ hStopPc' = "wait"
    /\ UNCHANGED << clientVars, peerVars, waitVars, hPc, buildVars, listener, lnFile,
                    reaped, pipe, waited, hTask, hWg, hFatal >>

\* c.Command.Process.Kill(): an error, only logged, when the child has been
\* waited for already
catboxStopKill ==
    /\ ~hFatal
    /\ hPc = "live"
    /\ hStopPc = "idle"
    /\ killed' = IF reaped THEN "finished" ELSE "ok"
    /\ child' = "exited"
    /\ hStopPc' = "wait"
    /\ UNCHANGED << clientVars, peerVars, waitVars, hPc, buildVars, configDir, listener, lnFile,
                    reaped, pipe, waited, hTask, hWg, hFatal >>

\* catboxStopWait going on without waiting for the tasks
catboxStopWait_NoWait ==
    /\ ~hFatal
    /\ hStopPc = "wait"
    /\ hStopPc' = "remove"
    /\ UNCHANGED << clientVars, peerVars, waitVars, hPc, buildVars, configDir, listener, lnFile,
                    child, reaped, pipe, waited, hTask, hWg, killed, hFatal >>

\* c.WaitGroup.Wait()
catboxStopWait ==
    /\ ~hFatal
    /\ hStopPc = "wait"
    /\ hWg = 0
    /\ hStopPc' = "remove"
    /\ UNCHANGED << clientVars, peerVars, waitVars, hPc, buildVars, configDir, listener, lnFile,
                    child, reaped, pipe, waited, hTask, hWg, killed, hFatal >>

\* os.RemoveAll(c.ConfigDir): return, or log.Fatalf on an error
catboxStopRemove ==
    /\ ~hFatal
    /\ hStopPc = "remove"
    /\ \/ /\ configDir' = "removed"
          /\ hStopPc' = "returned"
          /\ UNCHANGED hFatal
       \/ /\ hFatal' = TRUE
          /\ UNCHANGED << configDir, hStopPc >>
    /\ UNCHANGED << clientVars, peerVars, waitVars, hPc, buildVars, listener, lnFile, child,
                    reaped, pipe, waited, hTask, hWg, killed >>

catboxStop ==
    \/ catboxStopKill
    \/ catboxStopWait
    \/ catboxStopRemove

(* ---- specification of the harness ---- *)

HarnessNext ==
    \/ harnessCatbox
    \/ childReady
    \/ childExit
    \/ \E s \in Streams : logReader(s)
    \/ waitTask
    \/ catboxStop

HarnessSpec == HarnessInit /\ [][HarnessNext]_vars

\* Scheduling: the harness's own code runs on; the child is under no
\* obligation to become ready or to exit.
FairHarnessSpec ==
    /\ HarnessSpec
    /\ WF_vars(harnessCatbox)
    /\ WF_vars(\E s \in Streams : logReader(s))
    /\ WF_vars(waitTask)
    /\ WF_vars(catboxStop)

(* ---- helpers for the properties ---- *)

Front(s) == SubSeq(s, 1, Len(s) - 1)

Last(s) == s[Len(s)]

IsPrefix(s, t) == Len(s) <= Len(t) /\ SubSeq(t, 1, Len(s)) = s

IsPong(m) == m.Command = "PONG"

IsPingWithParam(m) == m.Command = "PING" /\ Len(m.Params) > 0

IsCallerMsg(m) == m.Command \in {"PRIVMSG", ""}

FirstParam(m) == m.Params[1]

FirstParams(s) == [i \in DOMAIN s |-> FirstParam(s[i])]

\* position in sentLog of a message the caller sent
Pos(m) == CHOOSE i \in DOMAIN sentLog : sentLog[i] = m

(* ---- two clients and a relaying server (TestPRIVMSG) ---- *)

\* The second client's start has succeeded: it is registered and its reader
\* is running.  Its caller submits nothing, so its writer stays in its select.
peerStart ==
    /\ peerPc = "none"
    /\ peerPc' = "check"
    /\ UNCHANGED << clientVars, harnessVars, waitVars, peerCur, peerRecv,
                    peerRecvClosed, peerErrs, peerNet, peerSent, peerGot >>

\* the server welcomes the second client once it is registered
serverWelcomePeer ==
    /\ peerPc # "none"
    /\ peerSent = 0
    /\ peerNet' = Append(peerNet, Welcome(PeerNick))
    /\ peerSent' = 1
    /\ UNCHANGED << clientVars, harnessVars, waitVars, peerPc, peerCur, peerRecv,
                    peerRecvClosed, peerErrs, peerGot >>

\* the server relays the next PRIVMSG the first client has written to the
\* second client, whom it has registered and welcomed
serverRelay ==
    LET written == SelectSeq(wire, IsCallerMsg) IN
    /\ peerSent >= 1
    /\ Len(written) >= peerSent
    /\ written[peerSent].Params[1] = PeerNick
    /\ peerNet' = Append(peerNet, LineOf(written[peerSent]))
    /\ peerSent' = peerSent + 1
    /\ UNCHANGED << clientVars, harnessVars, waitVars, peerPc, peerCur, peerRecv,
                    peerRecvClosed, peerErrs, peerGot >>

\* the second client's reader: the check of doneChan, which is open
peerReaderCheck ==
    /\ peerPc = "check"
    /\ peerPc' = "read"
    /\ UNCHANGED << clientVars, harnessVars, waitVars, peerCur, peerRecv,
                    peerRecvClosed, peerErrs, peerNet, peerSent, peerGot >>

\* if err != nil: continue on "i/o timeout", otherwise go on to post it
peerReaderOnErr(err) ==
    peerPc' = IF Contains(err, Timeout) THEN "check" ELSE "readerr"

\* readMessage: the deadline expires and nothing has arrived
peerReaderTimeout ==
    /\ peerPc = "read"
    /\ peerNet = <<>>
    /\ peerReaderOnErr(DeadlineErr)
    /\ UNCHANGED << clientVars, harnessVars, waitVars, peerCur, peerRecv,
                    peerRecvClosed, peerErrs, peerNet, peerSent, peerGot >>

\* readMessage: the deadline expires when the beginning of a line has arrived;
\* ReadString returns it with the error and readMessage drops it
peerReaderTimeoutMidLine ==
    /\ peerPc = "read"
    /\ peerNet # <<>>
    /\ Len(Head(peerNet)) >= 2
    /\ peerNet' = << Tail(Head(peerNet)) >> \o Tail(peerNet)
    /\ peerReaderOnErr(DeadlineErr)
    /\ UNCHANGED << clientVars, harnessVars, waitVars, peerCur, peerRecv,
                    peerRecvClosed, peerErrs, peerSent, peerGot >>

\* readMessage reads the next line and parses it; the server sends this
\* client no PING
peerReaderReadLine ==
    /\ peerPc = "read"
    /\ peerNet # <<>>
    /\ peerNet' = Tail(peerNet)
    /\ IF ParseFails(Head(peerNet))
       THEN /\ peerReaderOnErr(ParseErr(Head(peerNet)))
            /\ UNCHANGED peerCur
       ELSE /\ peerCur' = ParseMessage(Head(peerNet))
            /\ peerPc' = IF Head(Head(peerNet)) = "PING" THEN "pong" ELSE "fwd"
    /\ UNCHANGED << clientVars, harnessVars, waitVars, peerRecv, peerRecvClosed,
                    peerErrs, peerSent, peerGot >>

\* c.errChan <- err; close(recvChan); return
peerReaderPostErr ==
    /\ peerPc = "readerr"
    /\ peerErrs' = peerErrs + 1
    /\ peerRecvClosed' = TRUE
    /\ peerPc' = "done"
    /\ UNCHANGED << clientVars, harnessVars, waitVars, peerCur, peerRecv, peerNet,
                    peerSent, peerGot >>

\* recvChan <- m
peerReaderForward ==
    /\ peerPc = "fwd"
    /\ Len(peerRecv) < RecvCap
    /\ peerRecv' = Append(peerRecv, peerCur)
    /\ peerCur' = NoMsg
    /\ peerPc' = "check"
    /\ UNCHANGED << clientVars, harnessVars, waitVars, peerRecvClosed, peerErrs,
                    peerNet, peerSent, peerGot >>

peerReader ==
    \/ peerReaderCheck
    \/ peerReaderTimeout
    \/ peerReaderTimeoutMidLine
    \/ peerReaderReadLine
    \/ peerReaderPostErr
    \/ peerReaderForward

\* waitForMessage on the second client's inbound queue: <-recvChan
peerCallerRecv ==
    /\ peerRecv # <<>>
    /\ peerGot' = Append(peerGot, Head(peerRecv))
    /\ peerRecv' = Tail(peerRecv)
    /\ UNCHANGED << clientVars, harnessVars, waitVars, peerPc, peerCur, peerRecvClosed,
                    peerErrs, peerNet, peerSent >>

\* The server sends the first client its welcome and nothing else.
WelcomeOnly(line) ==
    pending = <<>> => (srvLines = <<>> /\ line = Welcome(Nick))

relayReader ==
    \/ readerCheck
    \/ readerTimeout
    \/ \E line \in ServerLines : WelcomeOnly(line) /\ readerTimeoutMidLine(line)
    \/ \E line \in ServerLines \cup Rests :
           WelcomeOnly(line) /\ readerReadLine(line)
    \/ readerPostErr
    \/ readerForward

relayWriter ==
    \/ writerSelectMsg
    \/ flushWrite("writer")
    \/ flushEnd("writer")

\* TestPRIVMSG submits its PRIVMSG when it has received a welcome from both
\* inbound queues.
testSend ==
    /\ Len(fwdLog) > Len(recvChan)
    /\ peerGot # <<>>
    /\ callerSend(TRUE)

\* TestPRIVMSG up to its last wait: both clients are started against the one
\* server, neither is stopped, the connections hold, the caller submits
\* well-formed messages to the second client's nick and receives from both
\* inbound queues.
RelayNext ==
    \/ start
    \/ relayReader
    \/ relayWriter
    \/ testSend
    \/ callerRecv
    \/ peerStart
    \/ serverWelcomePeer
    \/ serverRelay
    \/ peerReader
    \/ peerCallerRecv

RelaySpec == Init /\ [][RelayNext]_vars

\* Scheduling: the loops of both clients run on, the server welcomes and
\* relays, and the test receives what the inbound queues hold.  When a read
\* deadline falls is up to the network.
FairRelaySpec ==
    /\ RelaySpec
    /\ WF_vars(start)
    /\ WF_vars(relayReader)
    /\ WF_vars(relayWriter)
    /\ WF_vars(callerRecv)
    /\ WF_vars(peerStart)
    /\ WF_vars(serverWelcomePeer)
    /\ WF_vars(serverRelay)
    /\ WF_vars(peerReader)
    /\ WF_vars(peerCallerRecv)

(* ---- waitForMessage on the client's inbound queue ---- *)

\* what the tests wait for: the welcome, a relayed PRIVMSG
Wanted == {"001", "PRIVMSG"}

\* the zero irc.Message, which a receive from a closed channel yields
ZeroMsg == [Command |-> "", Params |-> <<>>]

\* the test calls waitForMessage(t, recvChan, want, ...) and enters the loop;
\* every pass of the loop makes a new 10 s timer
waitCall(want) ==
    /\ crashed = "no"
    /\ startPc = "running"
    /\ wPc = "idle"
    /\ wWant' = want
    /\ wPc' = "select"
    /\ UNCHANGED << clientVars, harnessVars, peerVars, wGot, wSpun >>

\* if got.Command == want.Command: return &got; otherwise the next pass
waitGot(got) ==
    IF got.Command = wWant
    THEN wPc' = "returned" /\ wGot' = got
    ELSE UNCHANGED << wPc, wGot >>

\* case got := <-ch, a message being on the queue
waitRecv ==
    /\ crashed = "no"
    /\ wPc = "select"
    /\ recvChan # <<>>
    /\ recvChan' = Tail(recvChan)
    /\ waitGot(Head(recvChan))
    /\ UNCHANGED << startVars, netVars, chansMade, recvClosed, sendVars,
                    errVars, doneClosed, wgCount, pc, cur, bufVars, stopPc,
                    crashed, wire, readerHist, errCount, sentLog, failedLog,
                    polledClosed, harnessVars, peerVars, wWant, wSpun >>

\* case got := <-ch, the queue being closed and empty: the receive is ready at
\* once and yields the zero message
waitRecvClosed ==
    /\ crashed = "no"
    /\ wPc = "select"
    /\ recvChan = <<>> /\ recvClosed
    /\ wSpun' = TRUE
    /\ waitGot(ZeroMsg)
    /\ UNCHANGED << clientVars, harnessVars, peerVars, wWant >>

\* case <-time.After(10 * time.Second): the timer of this pass fires, which
\* takes 10 s in which the receive has not been ready; return nil
waitTimeout ==
    /\ crashed = "no"
    /\ wPc = "select"
    /\ recvChan = <<>> /\ ~recvClosed
    /\ wPc' = "timedout"
    /\ UNCHANGED << clientVars, harnessVars, peerVars, wWant, wGot, wSpun >>

waitForMessage ==
    \/ \E want \in Wanted : waitCall(want)
    \/ waitRecv
    \/ waitRecvClosed
    \/ waitTimeout

\* A test that starts the client and waits for a message on its inbound queue:
\* the reader loop is the only sender on the queue, the caller submits
\* nothing, the server may send what it likes and the connection may fail.
WaitNext ==
    \/ start
    \/ reader
    \/ ConnFail
    \/ waitForMessage

WaitSpec == Init /\ [][WaitNext]_vars

\* Scheduling: the reader loop and the test's goroutine run on.
FairWaitSpec ==
    /\ WaitSpec
    /\ WF_vars(start)
    /\ WF_vars(reader)
    /\ WF_vars(waitForMessage)

(* ---- properties ---- *)

\* C1: once Client.stop has been called it returns, whatever is pending on the
\* outbound queue, wherever the reader loop is and whether or not the
\* connection has failed.  Checked under FairSpec; a process that has died of
\* a panic is not held against stop.
C1_StopAlwaysReturns ==
    (stopPc # "idle") ~> (stopPc = "returned" \/ crashed # "no")

\* C2: the first write on the connection is NICK and the second is USER, and
\* neither loop exists before both are written; so no caller message and no
\* PONG is written before or between them.
C2_RegistrationFirst ==
    /\ Len(wire) >= 1 => wire[1] = NickMsg
    /\ Len(wire) >= 2 => wire[2] = UserMsg
    /\ \A t \in Tasks : pc[t] # "none" => Len(wire) >= 2
    /\ chansMade => Len(wire) >= 2

C2_Witness ==
    /\ startPc = "running"
    /\ Len(wire) >= 4
    /\ \E i, j \in 3..Len(wire) : IsPong(wire[i]) /\ wire[j].Command = "PRIVMSG"

\* C3: the PONGs on the wire answer, one each and in order, the PINGs read: at
\* least those already forwarded to the inbound queue (the PONG is written
\* before the PING is forwarded), at most those read (exactly one PONG per
\* PING, none for any other message).
C3_OnePongPerPing ==
    LET pongs == FirstParams(SelectSeq(wire, IsPong))
        pingsRead == FirstParams(SelectSeq(readLog, IsPingWithParam))
        pingsForwarded == FirstParams(SelectSeq(fwdLog, IsPingWithParam))
    IN  /\ IsPrefix(pongs, pingsRead)
        /\ IsPrefix(pingsForwarded, pongs)

\* C4: when the reader has ended on a fatal read error, every message read
\* before it has been sent on the inbound queue, the reader has posted exactly
\* one entry to the error queue and the inbound queue is closed.
C4_NoLossBeforeReadError ==
    rExit = "readerr" =>
        /\ fwdLog = readLog
        /\ errCount["reader"] = 1
        /\ recvClosed

C4_Witness ==
    /\ rExit = "readerr"
    /\ Len(readLog) >= 2
    /\ \E i \in DOMAIN readLog : readLog[i].Command = "PING"

\* the reader holds a message it has read and not yet forwarded
Handling == pc["reader"] \in {"pong", "flush", "flushed", "pongerr", "fwd"}

EndedOnPing == pc["reader"] = "done" /\ rExit = "pongerr"

C6_WrittenOnceInOrder ==
    (stopPc = "idle" /\ failedLog = <<>> /\ ~werr) =>
        IsPrefix(SelectSeq(wire, IsCallerMsg), sentLog)

\* C7: a failed start leaves no queue, no loop, and after a failed registration
\* write a closed connection.
C7_FailedStartLeavesNothing ==
    startPc = "failed" =>
        /\ startErr \in {"dial", "nick", "user"}
        /\ ~chansMade
        /\ \A t \in Tasks : pc[t] = "none"
        /\ wgCount = 0
        /\ startErr = "dial" => conn = "none"
        /\ startErr \in {"nick", "user"} => conn = "closed"

C7_Witness == startPc = "failed" /\ startErr = "user" /\ wire = <<NickMsg>>

\* C8: the error queue is closed only when both loops have ended, it is closed
\* at most once, and no loop sends on it once it is closed.
C8_ErrChanClosedAfterLoops ==
    /\ errClosed => pc["reader"] = "done" /\ pc["writer"] = "done"
    /\ errCloses <= 1
    /\ crashed # "send on closed channel"

C8_Witness ==
    /\ errClosed
    /\ errCount["reader"] = 1
    /\ errCount["writer"] >= 1

\* C9: no message that the caller queued behind one whose write failed is
\* written to the connection.
C9_NoWriteAfterFailure ==
    \A k \in DOMAIN wire : \A f \in DOMAIN failedLog :
        IsCallerMsg(wire[k]) => Pos(wire[k]) <= Pos(failedLog[f])

\* C10: each loop posts at most one entry to the error queue.
C10_OneErrorPerLoop ==
    /\ errCount["reader"] <= 1
    /\ errCount["writer"] <= 1

\* C11: a read failure other than a deadline expiry, and a parse failure, is
\* fatal to the reader whatever the line or the error text says: the reader
\* goes on to post it, and when it has ended on it the inbound queue is closed
\* and it has posted its entry; it never goes back to reading.
C11_FailuresAreFatal ==
    /\ readErr \in {"parse", "read"} => pc["reader"] = "readerr"
    /\ rExit = "readerr" => recvClosed /\ errCount["reader"] = 1

\* C12: after a read-deadline expiry the reader is back at the check of the
\* shutdown signal, has posted nothing, has not closed the inbound queue and
\* has not ended.
C12_TimeoutIsNoError ==
    readErr = "timeout" =>
        /\ pc["reader"] = "check"
        /\ ~recvClosed
        /\ errCount["reader"] = 0
        /\ rExit = "none"

C12_Witness ==
    /\ readErr = "timeout"
    /\ pc["reader"] = "check"
    /\ Len(fwdLog) >= 1

\* the reader has ended on a fatal error and stop has not been called
ReaderEndedAlone ==
    /\ rExit \in {"readerr", "pongerr"}
    /\ stopPc = "idle"
    /\ crashed = "no"

\* C13: when the reader has ended on a fatal error and stop has not been
\* called, the shutdown signal has not fired, the connection is not closed,
\* the writer is in its loop, and a message waiting on the outbound queue is
\* taken and written by the writer at its select.
C13_ReaderErrorStopsOnlyReader ==
    ReaderEndedAlone =>
        /\ ~doneClosed
        /\ conn = "open"
        /\ pc["writer"] \in {"select", "flush", "flushed", "writeerr"}
        /\ wgCount = 1
        /\ (pc["writer"] = "select" /\ sendChan # <<>>) => ENABLED writerSelectMsg

C13_Witness ==
    /\ ReaderEndedAlone
    /\ rExit = "readerr"
    /\ pc["writer"] = "flushed"
    /\ cur["writer"].Command = "PRIVMSG"
    /\ wire # <<>> /\ Last(wire) = cur["writer"]
    /\ failedLog = <<>>

\* C14: when stop has returned, the shutdown signal has fired, both loops have
\* ended, the three queues are closed, the inbound and the error queue are
\* empty and the connection is closed; and stop closes the connection only
\* when both loops have ended.
C14_StopLeavesNothing ==
    /\ stopPc = "returned" =>
           /\ doneClosed
           /\ \A t \in Tasks : pc[t] = "done"
           /\ wgCount = 0
           /\ sendClosed /\ recvClosed /\ errClosed
           /\ recvChan = <<>> /\ errChan = <<>>
           /\ conn = "closed"
    /\ (startPc = "running" /\ conn = "closed") =>
           \A t \in Tasks : pc[t] = "done"

C14_Witness ==
    /\ stopPc = "returned"
    /\ Len(fwdLog) >= 1
    /\ errCount["reader"] + errCount["writer"] >= 1

\* C15: when the writer has received from the outbound queue closed and empty,
\* and the shutdown signal has not fired, it has left its loop: it is not back
\* at the select.
C15_ClosedQueueEndsWriter ==
    (polledClosed /\ ~doneClosed) => pc["writer"] # "select"

\* task t is inside the write path on the connection's buffered writer
InWritePath(t) == pc[t] \in {"flush", "flushed"}

\* C16: the reader (writing a PONG) and the writer (writing a caller message)
\* are never inside the write path of the connection at the same time.
C16_WriteSideExclusive == ~(InWritePath("reader") /\ InWritePath("writer"))

\* C17: when Catbox.stop has returned, the child has exited and has been
\* waited for, the two log readers have seen the end of their stream and
\* finished, the exit-wait task has finished, and the temporary directory is
\* gone.
C17_CatboxStopLeavesNothing ==
    hStopPc = "returned" =>
        /\ child = "exited" /\ reaped
        /\ \A k \in HTasks : hTask[k] = "done"
        /\ hWg = 0
        /\ configDir = "removed"

C17_Witness ==
    /\ hStopPc = "returned"
    /\ killed = "ok"

\* C18: Catbox.stop kills, joins, cleans up: it waits only after the kill has
\* been issued, and the temporary directory of a handle exists as long as one
\* of the handle's three background tasks has not finished.
C18_KillJoinCleanUp ==
    /\ hStopPc \in {"wait", "remove", "returned"} => killed # "none"
    /\ (hPc = "live" /\ \E k \in HTasks : hTask[k] = "running") =>
           configDir = "exists"
    /\ (hPc = "live" /\ configDir = "removed") =>
           \A k \in HTasks : hTask[k] = "done"

C18_Witness ==
    /\ hStopPc = "wait"
    /\ killed = "ok"
    /\ configDir = "exists"
    /\ \E k \in HTasks : hTask[k] = "running"
    /\ \E k \in HTasks : hTask[k] = "done"

\* C19: the readiness wait returns the handle only when the child itself is
\* accepting connections.
C19_ReadyMeansAccepting ==
    [][(hPc = "dial" /\ hPc' = "tasks") => child = "accepting"]_vars

\* C20: the readiness wait comes to an end: harnessCatbox returns, with the
\* handle or with an error.  Checked under FairHarnessSpec.
C20_ReadinessWaitReturns ==
    (hPc = "dial") ~> (hPc \in {"tasks", "live", "failed"})

\* C21 (as claimed): go build is executed at most once in a process.
C21_BuildExecutedOnce == builds <= 1

\* C21 (amended): a build that succeeds (harnessCatbox goes on) sets the flag,
\* and once the flag is set it stays set and no build is executed any more:
\* the build succeeds at most once, and is skipped by every call after that.
C21_NoBuildAfterSuccess ==
    [][ /\ (builds' > builds /\ hPc' = "tempdir") => builtCatbox'
        /\ builtCatbox => (builds' = builds /\ builtCatbox') ]_vars

C21_Witness ==
    /\ calls = 2
    /\ builds = 1
    /\ hPc = "tempdir"

\* C25: while the harness polls for readiness the two log readers are already
\* running.
C25_DrainsRunDuringReadinessWait ==
    hPc = "dial" => \A s \in Streams : hTask[s] = "running"

\* C26: when the child has exited of its own accord and Catbox.stop has not
\* been called, the harness process is still running.
C26_OwnExitNotEscalated ==
    (hPc = "live" /\ hStopPc = "idle" /\ child = "exited") => ~hFatal

\* C30: no log reader ends on a read failure, whatever the order of the
\* child's exit, the release of the pipes by the exit-wait task and the
\* readers' reads.
C30_DrainsEndCleanly == \A s \in Streams : hTask[s] # "fatal"

\* C27: Client.stop returns even when the caller has not drained the inbound
\* queue: a reader that is blocked sending to the full inbound queue when stop
\* is under way is released and ends.  Checked under FairSpec; a process that
\* has died of a panic is not held against stop.
C27_BlockedReaderIsReleased ==
    (stopPc # "idle" /\ pc["reader"] = "fwd" /\ Len(recvChan) = RecvCap)
        ~> (pc["reader"] = "done" \/ crashed # "no")

\* C29: whatever message the parser returns, a PING without parameters
\* included, the reader handles it or ends regularly (shutdown, posted error);
\* it never ends on a run-time panic.
C29_ReaderNeverAborts ==
    rExit # "panic"

\* C24: the reader closes the inbound queue exactly once on every path by
\* which it terminates (shutdown signal, fatal read or parse error, failed
\* PONG write): the queue is closed exactly when the reader has ended on one
\* of these paths, it becomes closed only in the reader's last step, and it
\* was open before; nothing else closes or reopens it, and once it is closed
\* the reader forwards nothing more and stays ended.
C24_ReaderClosesInboundOnce ==
    [][ /\ (pc'["reader"] = "done") <=> recvClosed'
        /\ recvClosed' => rExit' \in {"shutdown", "readerr", "pongerr"}
        /\ (pc["reader"] # "done" /\ pc'["reader"] = "done")
               => (~recvClosed /\ recvClosed')
        /\ recvClosed # recvClosed'
               => (pc["reader"] \in {"check", "readerr", "pongerr"}
                   /\ pc'["reader"] = "done")
        /\ recvClosed => (recvClosed' /\ pc'["reader"] = "done"
                          /\ fwdLog' = fwdLog
                          /\ Len(recvChan') <= Len(recvChan)) ]_vars

C24_Witness ==
    /\ rExit = "pongerr"
    /\ recvClosed
    /\ Len(fwdLog) >= 1
    /\ recvChan # <<>>

\* C23: once the writer has taken the shutdown case of its select it writes
\* nothing more: no caller message reaches the connection from then on; each
\* of its steps takes one message off the outbound queue and drops it, or,
\* the queue being closed and empty, ends the loop; neither step can be
\* refused, so a queue that still holds messages is always being emptied and
\* a closed, empty queue ends the writer at once; an ended writer leaves the
\* queue closed and empty.
C23_ShutdownWriterOnlyDiscards ==
    [][ pc["writer"] \in {"drain", "done"} =>
          /\ SelectSeq(wire', IsCallerMsg) = SelectSeq(wire, IsCallerMsg)
          /\ pc'["writer"] \in {"drain", "done"}
          /\ pc'["writer"] = "done" => (sendChan' = <<>> /\ sendClosed')
          /\ (pc["writer"] = "drain" /\ pc'["writer"] = "done")
                 => (sendChan = <<>> /\ sendClosed)
          /\ sendChan' # sendChan
                 => (sendChan # <<>> /\ sendChan' = Tail(sendChan)
                     /\ wire' = wire /\ wbuf' = wbuf
                     /\ failedLog' = failedLog)
          /\ (pc["writer"] = "drain" /\ crashed = "no"
                /\ (sendChan # <<>> \/ sendClosed))
                 => ENABLED writerDrain ]_vars

C23_Witness ==
    /\ pc["writer"] = "done"
    /\ stopPc = "returned"
    /\ \E i \in 1..Len(sentLog) :
          /\ ~EncodeFails(sentLog[i])
          /\ \A j \in 1..Len(wire) : wire[j] # sentLog[i]
          /\ \A j \in 1..Len(failedLog) : failedLog[j] # sentLog[i]

WellFormed(line) == ~ParseFails(line)

\* the messages of the well-formed lines among s
Msgs(s) ==
    LET w == SelectSeq(s, WellFormed)
    IN  [i \in 1..Len(w) |-> ParseMessage(w[i])]

\* C28: a read-deadline expiry loses no data: wherever the deadlines fall
\* between the bytes of a line, once the reader has taken in all that the
\* server has sent, the messages it has read (which are the ones it forwards)
\* are the messages of the well-formed lines sent, one per line, in order.
C28_TimeoutLosesNoData ==
    pending = <<>> => readLog = Msgs(srvLines)

\* C22: with both clients registered against a server that welcomes each
\* registered client and relays direct messages, the first message either
\* inbound queue yields is the client's welcome (001), and every PRIVMSG the
\* first client's caller has placed on the outbound queue is eventually
\* yielded, with the same parameters, by the second client's inbound queue.
\* Checked under FairRelaySpec.
C22_PrivmsgIsRelayed ==
    /\ [](fwdLog # <<>> => fwdLog[1] = ParseMessage(Welcome(Nick)))
    /\ [](peerGot # <<>> => peerGot[1] = ParseMessage(Welcome(PeerNick)))
    /\ \A i \in 1..MaxTraffic :
          (Len(sentLog) >= i)
              ~> (/\ Len(sentLog) >= i
                  /\ \E j \in 1..Len(peerGot) : peerGot[j] = sentLog[i])

\* C31: when harnessCatbox has returned an error after the child was
\* launched, nothing is left behind: the child has exited and has been waited
\* for, the temporary directory is removed, and the listening socket is
\* closed, the listener as well as the descriptor copy made for the child.
C31_FailedLaunchLeavesNothing ==
    (hPc = "failed" /\ child # "none") =>
        /\ child = "exited" /\ reaped
        /\ configDir = "removed"
        /\ listener = "closed" /\ lnFile # "open"

\* C32: after Catbox.stop has returned, the harness process holds neither the
\* listener of getRandomPort nor the descriptor copy passed to the child, so
\* no socket is listening on the handle's port.
C32_NoListenerAfterStop ==
    hStopPc = "returned" =>
        /\ listener # "open"
        /\ lnFile # "open"
        /\ ~Listening

\* C33: waitForMessage always returns: with a message whose command is the
\* wanted one, or with nil after the timeout; in particular when the reader
\* loop has closed the inbound queue.  Checked under FairWaitSpec; a process
\* that has died of a panic is not held against it.
C33_WaitForMessageReturns ==
    /\ [](wPc = "returned" => wGot.Command = wWant)
    /\ (wPc = "select") ~> (wPc \in {"returned", "timedout"} \/ crashed # "no")

====
